---- MODULE Spec2Model ----
(***************************************************************************)
(* Verification model of three files of terraform-provider-ibm:            *)
(*   - data_source_ibm_is_instance_group_managers.go (paginated read)      *)
(*   - resource_ibm_is_networkacls.go (network ACL create/update, rules)   *)
(*   - the bare metal server network interface floating IP resource        *)
(*     (composite id, status pollers)                                      *)
(* Remote calls are steps whose response the environment chooses.          *)
(***************************************************************************)
EXTENDS Integers, Sequences, FiniteSets, TLC

VARIABLES
    pc,        \* position of the running operation
    op,        \* the operation that was invoked
    result,    \* "none" while running, "ok" (nil) or the error returned
    start,     \* pagination cursor variable of the running lister
    allrecs,   \* items accumulated by the running lister
    reqs,      \* Start option of every list request sent, in order
    resps,     \* every list response received, in order
    deleted,   \* ids of the DeleteNetworkACLRule calls issued, in order
    attr,      \* instance_group_managers attribute of the data source
    id,        \* d.Id() of the resource data
    id0,       \* d.Id() when the running operation was invoked
    args,      \* server, interface and floating IP id of the last parse / remote call
    calls,     \* client initialisation and remote calls of the running operation
    obs,       \* what each status fetch of the running poller returned
    status,    \* the floating IP status attribute of the resource data
    waited,    \* what the last poller returned: final state and error
    changed,   \* d.HasChange of the floating IP id in the running update
    rules,     \* the rules of the configuration of the running network ACL operation
    cfg,       \* what the running network ACL operation read with GetOk / HasChange
    made,      \* prototype of every CreateNetworkACLRule call issued, in order
    logged,    \* tag updates whose failure was only logged
    rtype,     \* the resource the resource data belongs to
    got        \* what the Get a handler makes before it acts returned

pageVars == <<start, allrecs, reqs, resps, deleted, attr>>
fipVars == <<id0, args, calls, obs, status, waited, changed>>
aclVars == <<rules, cfg, made, logged>>
resVars == <<rtype, got>>
vars == <<pc, op, result, start, allrecs, reqs, resps, deleted, attr, id,
          id0, args, calls, obs, status, waited, changed, rules, cfg, made, logged, rtype, got>>

\* ---------------------------------------------------------------- bounds
MaxFetch == 3       \* list calls per listing after which the server ends it
MaxPageLen == 1     \* items per page
MaxAclFetch == 1    \* list calls per listing inside a network ACL create / update
MaxRules == 2       \* rules in a network ACL configuration

\* ------------------------------------------------------------- constants
Nil == "nil"                      \* an absent pointer / unset option
Cursors == {"c1", "c2"}           \* start tokens the server hands out
Managers == {"m1", "m2"}          \* instance group manager ids
RuleItems == {[id |-> "r1", kind |-> "icmp"], [id |-> "r2", kind |-> "tcpudp"]}
UnsetId == ""
NotWaited == [state |-> Nil, err |-> "not called"]   \* no poller has returned
NoGet == [err |-> FALSE, code |-> 0]                 \* the handler has made no Get
DataSourceId == "now"             \* time.Now().UTC().String()
\* nothing read yet from the network ACL configuration
NoCfg == [vpc |-> FALSE, hasChanged |-> FALSE, tags |-> FALSE, accessTags |-> FALSE,
          rulesChanged |-> FALSE]

SeqsUpTo(S, n) == UNION {[1..k -> S] : k \in 0..n}

\* flex.GetNext: the start token of the collection's next reference, "" if none
GetNext(next) == IF next = Nil THEN "" ELSE next

\* the responses a list call can get: an error, or a page with a next reference
PageResponses(items, last) ==
    {[ok |-> FALSE, items |-> <<>>, next |-> Nil]} \cup
    {[ok |-> TRUE, items |-> s, next |-> n] :
        s \in SeqsUpTo(items, MaxPageLen),
        n \in (IF last THEN {Nil} ELSE {Nil} \cup Cursors)}

\* ------------------------------------------------ the paginated listers
\* mutant: the Start option is never set
ListOptionsStartUnset(s) == Nil

\* if start != "" { options.Start = &start }
ListOptionsStart(s) == IF s /= "" THEN s ELSE Nil

\* mutant: items already accumulated are skipped
AppendPageDedup(recs, page) ==
    recs \o SelectSeq(page, LAMBDA x : \A i \in 1..Len(recs) : recs[i] /= x)

\* allrecs = append(allrecs, page...)
AppendPage(recs, page) == recs \o page

\* if start == "" { break }
LoopBreaks(s) == s = ""

\* the manager maps built from allrecs, one per record, in order
ManagerMaps(recs) == [i \in 1..Len(recs) |-> [manager_id |-> recs[i]]]

\* where the data source read goes after a list response
IgmAfterList(ok, s) ==
    IF ~ok THEN "done" ELSE IF LoopBreaks(s) THEN "done" ELSE "igm_list"

\* mutant: a failed list call breaks out of the loop instead of returning
ClearAfterListBreak(ok, s) ==
    IF ~ok THEN "clear_delete" ELSE IF LoopBreaks(s) THEN "clear_delete" ELSE "clear_list"

\* where clearRules goes after a list response
ClearAfterList(ok, s) ==
    IF ~ok THEN "done" ELSE IF LoopBreaks(s) THEN "clear_delete" ELSE "clear_list"

\* mutant: the type switch has no case for icmp rules
DeleteRuleIDNoIcmp(rule) ==
    CASE rule.kind = "tcpudp" -> rule.id
      [] rule.kind = "all" -> rule.id
      [] OTHER -> Nil

\* deleteNetworkAclRuleOptions.ID by the type switch of clearRules
DeleteRuleID(rule) ==
    CASE rule.kind = "icmp" -> rule.id
      [] rule.kind = "tcpudp" -> rule.id
      [] rule.kind = "all" -> rule.id
      [] OTHER -> Nil

\* where nwaclCreate / nwaclUpdate go once createInlineRules has returned nil
AfterCreateRules(o) ==
    IF o = "nwacl_create"
    THEN [pc |-> "create_tags", result |-> "none"]
    ELSE [pc |-> "done", result |-> "ok"]

\* mutant: create and update go on after a failed clearRules
AfterClearRulesIgnoreErr(o, rls, err) ==
    IF o = "clearRules"
    THEN [pc |-> "done", result |-> IF err = Nil THEN "ok" ELSE err]
    ELSE IF rls = <<>>
         THEN AfterCreateRules(o)
         ELSE [pc |-> "create_rules", result |-> "none"]

\* where the caller of clearRules goes when it returns err (Nil for nil);
\* createInlineRules with no rules returns nil without a call
AfterClearRules(o, rls, err) ==
    IF o = "clearRules"
    THEN [pc |-> "done", result |-> IF err = Nil THEN "ok" ELSE err]
    ELSE IF err /= Nil
         THEN [pc |-> "done", result |-> "clearRules failed"]
         ELSE IF rls = <<>>
              THEN AfterCreateRules(o)
              ELSE [pc |-> "create_rules", result |-> "none"]

\* list calls after which the server ends the listing of the running operation
FetchCap(o) == IF o = "clearRules" THEN MaxFetch ELSE MaxAclFetch

\* the responses a list call of the running operation can get: all of them for
\* clearRules on its own; inside a network ACL create or update the one cursor
\* "c1" and the one listed rule "r1", its rule list being the varied input there
RulePageResponses(o, last) ==
    IF o = "clearRules"
    THEN PageResponses(RuleItems, last)
    ELSE {r \in PageResponses(RuleItems, last) :
            /\ r.next \in {Nil, "c1"}
            /\ \A i \in 1..Len(r.items) : r.items[i].id = "r1"}

\* dataSourceIBMISInstanceGroupManagersRead up to its first list call
DataSourceReadBegin ==
    /\ pc = "idle"
    /\ op' = "igm_read"
    /\ \E clientOk \in BOOLEAN :
         IF clientOk
         THEN /\ pc' = "igm_list"
              /\ result' = "none"
         ELSE /\ pc' = "done"
              /\ result' = "initialize-client"
    /\ start' = ""
    /\ allrecs' = <<>>
    /\ UNCHANGED <<reqs, resps, deleted, attr, id, fipVars, aclVars, resVars>>

\* one iteration of the loop of dataSourceIBMISInstanceGroupManagersRead; the
\* iteration that breaks also builds and sets the attribute and the id
ListInstanceGroupManagers ==
    /\ pc = "igm_list"
    /\ \E r \in PageResponses(Managers, Len(resps) + 1 >= MaxFetch) :
         LET s == GetNext(r.next)
             recs == AppendPage(allrecs, r.items)
             to == IgmAfterList(r.ok, s)
         IN  /\ reqs' = Append(reqs, ListOptionsStart(start))
             /\ resps' = Append(resps, r)
             /\ pc' = to
             /\ IF ~r.ok
                THEN /\ result' = "list-failed"
                     /\ UNCHANGED <<start, allrecs, attr, id>>
                ELSE /\ start' = s
                     /\ allrecs' = recs
                     /\ IF to = "done"
                        THEN /\ attr' = ManagerMaps(recs)
                             /\ id' = DataSourceId
                             /\ result' = "ok"
                        ELSE UNCHANGED <<attr, id, result>>
    /\ UNCHANGED <<op, deleted, fipVars, aclVars, resVars>>

\* a call of clearRules up to its first list call
ClearRulesBegin ==
    /\ pc = "idle"
    /\ op' = "clearRules"
    /\ pc' = "clear_list"
    /\ result' = "none"
    /\ start' = ""
    /\ allrecs' = <<>>
    /\ UNCHANGED <<reqs, resps, deleted, attr, id, fipVars, aclVars, resVars>>

\* one iteration of the list loop of clearRules
ListNetworkACLRules ==
    /\ pc = "clear_list"
    /\ \E r \in RulePageResponses(op, Len(resps) + 1 >= FetchCap(op)) :
         LET s == GetNext(r.next)
             recs == AppendPage(allrecs, r.items)
             to == ClearAfterList(r.ok, s)
         IN  /\ reqs' = Append(reqs, ListOptionsStart(start))
             /\ resps' = Append(resps, r)
             /\ IF ~r.ok
                THEN /\ result' = AfterClearRules(op, rules, "list-rules-failed").result
                     /\ pc' = to
                     /\ UNCHANGED <<start, allrecs>>
                ELSE /\ start' = s
                     /\ allrecs' = recs
                     \* an empty allrecs makes the delete loop return nil at once
                     /\ IF to = "clear_delete" /\ recs = <<>>
                        THEN /\ pc' = AfterClearRules(op, rules, Nil).pc
                             /\ result' = AfterClearRules(op, rules, Nil).result
                        ELSE pc' = to /\ UNCHANGED result
    /\ UNCHANGED <<op, deleted, attr, id, fipVars, aclVars, resVars>>

\* one iteration of the delete loop of clearRules
DeleteNetworkACLRule ==
    /\ pc = "clear_delete"
    /\ Len(deleted) < Len(allrecs)
    /\ deleted' = Append(deleted, DeleteRuleID(allrecs[Len(deleted) + 1]))
    /\ \E ok \in BOOLEAN :
         IF ~ok
         THEN /\ pc' = "done"
              /\ result' = AfterClearRules(op, rules, "delete-rule-failed").result
         ELSE IF Len(deleted') = Len(allrecs)
              THEN /\ pc' = AfterClearRules(op, rules, Nil).pc
                   /\ result' = AfterClearRules(op, rules, Nil).result
              ELSE UNCHANGED <<pc, result>>
    /\ UNCHANGED <<op, start, allrecs, reqs, resps, attr, id, fipVars, aclVars, resVars>>

InitPage ==
    /\ pc = "idle"
    /\ op = "none"
    /\ result = "none"
    /\ start = ""
    /\ allrecs = <<>>
    /\ reqs = <<>>
    /\ resps = <<>>
    /\ deleted = <<>>
    /\ attr = Nil
    /\ id = UnsetId
    /\ id0 = UnsetId
    /\ args = <<>>
    /\ calls = <<>>
    /\ obs = <<>>
    /\ status = Nil
    /\ waited = NotWaited
    /\ changed = FALSE
    /\ rules = <<>>
    /\ cfg = NoCfg
    /\ made = <<>>
    /\ logged = <<>>
    /\ rtype = "none"
    /\ got = NoGet

NextPage ==
    \/ DataSourceReadBegin
    \/ ListInstanceGroupManagers
    \/ ClearRulesBegin
    \/ ListNetworkACLRules
    \/ DeleteNetworkACLRule

SpecPage == InitPage /\ [][NextPage]_vars

\* ------------------------------------------------- claims on the listers
RECURSIVE ConcatItems(_)
ConcatItems(rs) ==
    IF rs = <<>> THEN <<>> ELSE ConcatItems(SubSeq(rs, 1, Len(rs) - 1)) \o rs[Len(rs)].items

LastResp == resps[Len(resps)]
ListPcs == {"igm_list", "clear_list"}
EndsListing(r) == r.ok /\ r.next = Nil

\* C1: both listers accumulate exactly the concatenation of the pages' items in
\* server order (nothing dropped, duplicated, deduplicated or reordered), the
\* data source publishes one entry per accumulated item in that order, and a
\* single empty page with an empty cursor gives an empty result and no error.
C1_ConcatenationOfPages ==
    /\ allrecs = ConcatItems(resps)
    /\ (op = "igm_read" /\ pc = "done" /\ result = "ok") =>
           attr = ManagerMaps(ConcatItems(resps))
    /\ resps = <<[ok |-> TRUE, items |-> <<>>, next |-> Nil]>> =>
           /\ pc = "done"
           /\ result = "ok"
           /\ allrecs = <<>>
           /\ deleted = <<>>
           /\ op = "igm_read" => attr = <<>>

C1_Witness ==
    /\ op = "igm_read" /\ pc = "done" /\ result = "ok"
    /\ Len(resps) = 3
    /\ allrecs = <<"m2", "m1", "m2">>

\* C2: the first list request carries no start cursor, each later one carries
\* the cursor of the response just before it, no request follows a response
\* with an empty cursor (or a failed one), and the loop is left exactly when
\* such a response arrives: the number of requests is the index of the first
\* response with an empty cursor.
C2_CursorChain ==
    /\ Len(reqs) = Len(resps)
    /\ \A k \in 1..Len(reqs) :
           reqs[k] = IF k = 1 THEN Nil ELSE resps[k - 1].next
    /\ \A k \in 1..(Len(resps) - 1) : resps[k].ok /\ resps[k].next \in Cursors
    /\ pc \in ListPcs => (resps = <<>> \/ (LastResp.ok /\ LastResp.next \in Cursors))
    /\ (resps /= <<>> /\ LastResp.ok /\ LastResp.next \in Cursors) => pc \in ListPcs
    /\ (resps /= <<>> /\ EndsListing(LastResp)) =>
           /\ pc \notin ListPcs
           /\ Len(reqs) = CHOOSE k \in 1..Len(resps) :
                              /\ EndsListing(resps[k])
                              /\ \A j \in 1..(k - 1) : ~EndsListing(resps[j])

C2_Witness ==
    /\ op = "clearRules"
    /\ pc \notin ListPcs
    /\ reqs = <<Nil, "c2", "c1">>
    /\ EndsListing(LastResp)

\* C3: a failed list call ends the operation with an error at once: it is the
\* last call made, clearRules has issued no DeleteNetworkACLRule (not even for
\* rules of the pages already fetched), and the data source read has set
\* neither the instance_group_managers attribute nor the id.
C3_ListFailureAborts ==
    /\ \A k \in 1..Len(resps) : ~resps[k].ok => k = Len(resps)
    /\ (resps /= <<>> /\ ~LastResp.ok) =>
           /\ pc = "done"
           /\ result \in {"list-failed", "list-rules-failed"}
           /\ deleted = <<>>
           /\ op = "igm_read" => (attr = Nil /\ id = UnsetId)

C3_Witness ==
    /\ op = "clearRules"
    /\ Len(resps) = 3
    /\ ~LastResp.ok
    /\ Len(allrecs) = 2
    /\ pc = "done"

\* ------------------------------------- floating IP resource: composite id
MaxCompLen == 2     \* characters in a configured identifier
MaxIdLen == 5       \* characters in an identifier found in the state
MaxPolls == 3       \* status fetches that fit into a poller's timeout

Sep == "/"
Chars == {"a", Sep}                \* identifiers are sequences of characters
Empty == <<>>                      \* the string ""
Strings(n) == SeqsUpTo(Chars, n)
FipIds == {<<"a">>, <<"b">>}       \* floating IP ids the server returns
Statuses == {"pending", "available", "failed", "deleting"}

Contains(s, c) == \E i \in 1..Len(s) : s[i] = c

\* strings.Split(s, "/")
RECURSIVE Split(_)
Split(s) ==
    IF ~Contains(s, Sep)
    THEN <<s>>
    ELSE LET k == CHOOSE i \in 1..Len(s) :
                      s[i] = Sep /\ \A j \in 1..(i - 1) : s[j] /= Sep
         IN  <<SubSeq(s, 1, k - 1)>> \o Split(SubSeq(s, k + 1, Len(s)))

\* mutant: the floating IP id is put before the interface id
MakeTerraformNICFipIDSwapped(id1, id2, id3) == id1 \o <<Sep>> \o id3 \o <<Sep>> \o id2

\* fmt.Sprintf("%s/%s/%s", id1, id2, id3)
\* mutant: the network interface id is left out of the identifier
MakeTerraformNICFipIDTwoParts(id1, id2, id3) == id1 \o <<Sep>> \o id3

MakeTerraformNICFipID(id1, id2, id3) == id1 \o <<Sep>> \o id2 \o <<Sep>> \o id3

\* mutant: the check for empty segments is missing
ParseNICFipTerraformIDNoEmptyCheck(s) ==
    LET segments == Split(s)
    IN  IF Len(segments) /= 3
        THEN [a |-> Empty, b |-> Empty, c |-> Empty, err |-> "incorrect number of segments"]
        ELSE [a |-> segments[1], b |-> segments[2], c |-> segments[3], err |-> Nil]

ParseNICFipTerraformID(s) ==
    LET segments == Split(s)
    IN  IF Len(segments) /= 3
        THEN [a |-> Empty, b |-> Empty, c |-> Empty, err |-> "incorrect number of segments"]
        ELSE IF segments[1] = Empty \/ segments[2] = Empty \/ segments[3] = Empty
        THEN [a |-> Empty, b |-> Empty, c |-> Empty, err |-> "one or more empty segments"]
        ELSE [a |-> segments[1], b |-> segments[2], c |-> segments[3], err |-> Nil]

\* ParseNICTerraformID of the network interface resource: "server/nic"
ParseNICTerraformID(s) ==
    LET segments == Split(s)
    IN  IF Len(segments) /= 2
        THEN [a |-> Empty, b |-> Empty, err |-> "incorrect number of segments"]
        ELSE IF segments[1] = Empty \/ segments[2] = Empty
        THEN [a |-> Empty, b |-> Empty, err |-> "one or more empty segments"]
        ELSE [a |-> segments[1], b |-> segments[2], err |-> Nil]

\* mutant: every failure is taken for a 404
NotFoundAnyError(g) == g.err

\* mutant: a 404 is not told apart from the other failures
NotFoundNever(g) == FALSE

\* err != nil and response != nil && response.StatusCode == 404 after a Get
NotFound(g) == g.err /\ g.code = 404

\* what GetBareMetalServerNetworkInterfaceFloatingIP can answer
GetResponses ==
    {[err |-> FALSE, code |-> 200, fip |-> f, status |-> st] : f \in FipIds, st \in Statuses}
    \cup {[err |-> TRUE, code |-> c, fip |-> Empty, status |-> Nil] : c \in {404, 500}}

\* what AddBareMetalServerNetworkInterfaceFloatingIP can answer
AddResponses ==
    {[err |-> FALSE, fip |-> f, status |-> st] : f \in FipIds, st \in Statuses}
    \cup {[err |-> TRUE, fip |-> Empty, status |-> Nil]}

\* resourceIBMISBareMetalServerNetworkInterfaceFloatingIpCreate
FipCreate ==
    /\ pc = "idle"
    /\ rtype = "floating_ip"
    /\ op' = "fip_create"
    /\ id0' = id
    /\ obs' = <<>>
    /\ waited' = NotWaited
    /\ changed' = FALSE
    /\ pc' = "done"
    /\ \E clientOk \in BOOLEAN, server \in Strings(MaxCompLen),
          nic \in Strings(MaxCompLen + 1), r \in AddResponses :
         LET composite == Contains(nic, Sep)
             p == ParseNICTerraformID(nic)
             nicId == IF composite THEN p.b ELSE nic
         IN  IF ~clientOk
             THEN /\ result' = "initialize-client"
                  /\ calls' = <<"vpcClient">>
                  /\ UNCHANGED <<id, args, status>>
             ELSE IF composite /\ p.err /= Nil
             THEN /\ result' = "sep-id-parts"
                  /\ calls' = <<"vpcClient">>
                  /\ UNCHANGED <<id, args, status>>
             ELSE /\ calls' = <<"vpcClient", "Add">>
                  /\ IF r.err
                     THEN /\ result' = "add-failed"
                          /\ args' = <<server, nicId, Empty>>
                          /\ UNCHANGED <<id, status>>
                     ELSE /\ result' = "ok"
                          /\ args' = <<server, nicId, r.fip>>
                          /\ id' = MakeTerraformNICFipID(server, nicId, r.fip)
                          /\ status' = r.status
    /\ UNCHANGED <<pageVars, aclVars, resVars>>

\* resourceIBMISBareMetalServerNetworkInterfaceFloatingIpRead
FipRead ==
    /\ pc = "idle"
    /\ rtype = "floating_ip"
    /\ op' = "fip_read"
    /\ id0' = id
    /\ obs' = <<>>
    /\ waited' = NotWaited
    /\ changed' = FALSE
    /\ pc' = "done"
    /\ LET p == ParseNICFipTerraformID(id)
       IN  IF p.err /= Nil
           THEN /\ result' = "sep-id-parts"
                /\ args' = <<p.a, p.b, p.c>>
                /\ calls' = <<>>
                /\ got' = NoGet
                /\ UNCHANGED <<id, status>>
           ELSE \E clientOk \in BOOLEAN, g \in GetResponses :
                  /\ args' = <<p.a, p.b, p.c>>
                  /\ IF ~clientOk
                     THEN /\ result' = "initialize-client"
                          /\ calls' = <<"vpcClient">>
                          /\ got' = NoGet
                          /\ UNCHANGED <<id, status>>
                     ELSE /\ calls' = <<"vpcClient", "Get">>
                          /\ got' = [err |-> g.err, code |-> g.code]
                          /\ IF NotFound(g)
                             THEN /\ id' = Empty
                                  /\ result' = "ok"
                                  /\ UNCHANGED status
                             ELSE IF g.err
                             THEN /\ result' = "get-failed"
                                  /\ UNCHANGED <<id, status>>
                             ELSE /\ id' = MakeTerraformNICFipID(p.a, p.b, g.fip)
                                  /\ status' = g.status
                                  /\ result' = "ok"
    /\ UNCHANGED <<pageVars, aclVars, rtype>>

\* resourceIBMISBareMetalServerNetworkInterfaceFloatingIpUpdate; changed is
\* d.HasChange of the floating IP id
FipUpdate ==
    /\ pc = "idle"
    /\ rtype = "floating_ip"
    /\ op' = "fip_update"
    /\ id0' = id
    /\ obs' = <<>>
    /\ waited' = NotWaited
    /\ pc' = "done"
    /\ \E hasChange \in BOOLEAN :
         LET p == ParseNICFipTerraformID(id)
         IN  /\ changed' = hasChange
             /\ IF ~hasChange
                 THEN /\ result' = "ok"
                      /\ calls' = <<>>
                      /\ UNCHANGED <<id, args, status>>
                 ELSE IF p.err /= Nil
                 THEN /\ result' = "sep-id-parts"
                      /\ args' = <<p.a, p.b, p.c>>
                      /\ calls' = <<>>
                      /\ UNCHANGED <<id, status>>
                 ELSE \E clientOk \in BOOLEAN, r \in AddResponses :
                        IF ~clientOk
                        THEN /\ result' = "initialize-client"
                             /\ args' = <<p.a, p.b, p.c>>
                             /\ calls' = <<"vpcClient">>
                             /\ UNCHANGED <<id, status>>
                        ELSE /\ calls' = <<"vpcClient", "Add">>
                             /\ IF r.err
                                THEN /\ result' = "add-failed"
                                     /\ args' = <<p.a, p.b, p.c>>
                                     /\ UNCHANGED <<id, status>>
                                ELSE /\ result' = "ok"
                                     /\ args' = <<p.a, p.b, r.fip>>
                                     /\ id' = MakeTerraformNICFipID(p.a, p.b, r.fip)
                                     /\ status' = r.status
    /\ UNCHANGED <<pageVars, aclVars, resVars>>

\* resourceIBMISBareMetalServerNetworkInterfaceFloatingIpDelete and
\* bareMetalServerNetworkInterfaceFipDelete up to the wait for deletion
FipDelete ==
    /\ pc = "idle"
    /\ rtype = "floating_ip"
    /\ op' = "fip_delete"
    /\ id0' = id
    /\ obs' = <<>>
    /\ waited' = NotWaited
    /\ changed' = FALSE
    /\ LET p == ParseNICFipTerraformID(id)
       IN  /\ args' = <<p.a, p.b, p.c>>
           /\ IF p.err /= Nil
              THEN /\ result' = "sep-id-parts"
                   /\ calls' = <<>>
                   /\ got' = NoGet
                   /\ pc' = "done"
              ELSE \E clientOk \in BOOLEAN, g \in GetResponses, removeOk \in BOOLEAN :
                     IF ~clientOk
                     THEN /\ result' = "initialize-client"
                          /\ calls' = <<"vpcClient">>
                          /\ got' = NoGet
                          /\ pc' = "done"
                     ELSE IF NotFound(g)
                     THEN /\ result' = "ok"
                          /\ calls' = <<"vpcClient", "Get">>
                          /\ got' = [err |-> g.err, code |-> g.code]
                          /\ pc' = "done"
                     ELSE IF g.err
                     THEN /\ result' = "get-failed"
                          /\ calls' = <<"vpcClient", "Get">>
                          /\ got' = [err |-> g.err, code |-> g.code]
                          /\ pc' = "done"
                     ELSE IF ~removeOk
                     THEN /\ result' = "remove-failed"
                          /\ calls' = <<"vpcClient", "Get", "Remove">>
                          /\ got' = [err |-> g.err, code |-> g.code]
                          /\ pc' = "done"
                     ELSE /\ result' = "none"
                          /\ calls' = <<"vpcClient", "Get", "Remove">>
                          /\ got' = [err |-> g.err, code |-> g.code]
                          /\ pc' = "wait_deleted"
    /\ UNCHANGED <<id, status, pageVars, aclVars, rtype>>

\* ------------------------------------------------------ status pollers
\* what a status fetch of a poller can get
StatusResponses ==
    {[err |-> FALSE, code |-> 200, status |-> st] : st \in Statuses}
    \cup {[err |-> TRUE, code |-> c, status |-> Nil] : c \in {404, 500}}

\* mutant: deleting is listed as a target state instead of a pending one
DeletedConfDeletingTarget ==
    [Pending |-> {"available", "pending"},
     Target |-> {"deleted", "failed", "", "deleting"}]

\* Pending and Target of isWaitForBareMetalServerNetworkInterfaceFloatingIpDeleted
DeletedConf ==
    [Pending |-> {"available", "deleting", "pending"},
     Target |-> {"deleted", "failed", ""}]

\* Pending and Target of isWaitForBareMetalServerNetworkInterfaceFloatingIpAvailable
AvailableConf ==
    [Pending |-> {"pending"},
     Target |-> {"available", "failed"}]

\* mutant: the 404 test is dropped, every fetch error is returned
DeleteRefreshFuncNo404(g) ==
    IF g.err
    THEN [state |-> "failed", err |-> "get-error"]
    ELSE [state |-> "deleting", err |-> Nil]

\* mutant: a successful Get reports the status the floating IP has
DeleteRefreshFuncStatus(g) ==
    IF g.err
    THEN IF g.code = 404
         THEN [state |-> "deleted", err |-> Nil]
         ELSE [state |-> "failed", err |-> "get-error"]
    ELSE [state |-> g.status, err |-> Nil]

\* isBareMetalServerNetworkInterfaceFloatingIpDeleteRefreshFunc
DeleteRefreshFunc(g) ==
    IF g.err
    THEN IF g.code = 404
         THEN [state |-> "deleted", err |-> Nil]
         ELSE [state |-> "failed", err |-> "get-error"]
    ELSE [state |-> "deleting", err |-> Nil]

\* mutant: only failed is returned as it is, available is reported as pending
RefreshFuncFailedOnly(g) ==
    IF g.err
    THEN [state |-> "", err |-> "get-error"]
    ELSE IF g.status = "failed"
         THEN [state |-> g.status, err |-> Nil]
         ELSE [state |-> "pending", err |-> Nil]

\* mutant: a 404 is reported as pending instead of being returned as an error
RefreshFuncNotFoundPending(g) ==
    IF g.err /\ g.code = 404
    THEN [state |-> "pending", err |-> Nil]
    ELSE IF g.err
    THEN [state |-> "", err |-> "get-error"]
    ELSE IF g.status = "available" \/ g.status = "failed"
         THEN [state |-> g.status, err |-> Nil]
         ELSE [state |-> "pending", err |-> Nil]

\* mutant: the fetched status is reported as it is
RefreshFuncRaw(g) ==
    IF g.err
    THEN [state |-> "", err |-> "get-error"]
    ELSE [state |-> g.status, err |-> Nil]

\* isBareMetalServerNetworkInterfaceFloatingIpRefreshFunc
RefreshFunc(g) ==
    IF g.err
    THEN [state |-> "", err |-> "get-error"]
    ELSE IF g.status = "available" \/ g.status = "failed"
         THEN [state |-> g.status, err |-> Nil]
         ELSE [state |-> "pending", err |-> Nil]

\* mutant: the status is written only when it is available or failed
SetStatusTerminalOnly(cur, g) ==
    IF ~g.err /\ (g.status = "available" \/ g.status = "failed") THEN g.status ELSE cur

\* d.Set(floatingIPStatus, *fip.Status) of the available refresh func, which is
\* reached only when the fetch succeeded
SetStatus(cur, g) == IF g.err THEN cur ELSE g.status

\* StateChangeConf.WaitForState on one refresh result: a refresh error ends the
\* wait with it, a target state ends it with success, a pending state goes on
\* to the next refresh, any other state is an unexpected-state error
WaitForStateStep(conf, r) ==
    IF r.err /= Nil THEN [next |-> "end", state |-> Nil, err |-> r.err]
    ELSE IF r.state \in conf.Target THEN [next |-> "end", state |-> r.state, err |-> Nil]
    ELSE IF r.state \in conf.Pending THEN [next |-> "refresh", state |-> r.state, err |-> Nil]
    ELSE [next |-> "end", state |-> Nil, err |-> "unexpected state"]

\* StateChangeConf.WaitForState when the timeout expires before a target state
WaitForStateTimeout == [next |-> "end", state |-> Nil, err |-> "timeout"]

\* mutant: the identifier is cleared whatever the wait returned
FipDeleteAfterWaitAlwaysClear(w, cur) ==
    IF w.err /= Nil
    THEN [result |-> "wait-failed", id |-> Empty]
    ELSE [result |-> "ok", id |-> Empty]

\* bareMetalServerNetworkInterfaceFipDelete after the wait returned w
FipDeleteAfterWait(w, cur) ==
    IF w.err /= Nil
    THEN [result |-> "wait-failed", id |-> cur]
    ELSE [result |-> "ok", id |-> Empty]

\* a call of isWaitForBareMetalServerNetworkInterfaceFloatingIpDeleted
WaitDeletedBegin ==
    /\ pc = "idle"
    /\ op' = "wait_deleted"
    /\ pc' = "wait_deleted"
    /\ result' = "none"
    /\ id0' = id
    /\ calls' = <<>>
    /\ obs' = <<>>
    /\ waited' = NotWaited
    /\ changed' = FALSE
    /\ UNCHANGED <<id, args, status, pageVars, aclVars, resVars>>

\* a call of isWaitForBareMetalServerNetworkInterfaceFloatingIpAvailable
WaitAvailableBegin ==
    /\ pc = "idle"
    /\ op' = "wait_available"
    /\ pc' = "wait_available"
    /\ result' = "none"
    /\ id0' = id
    /\ calls' = <<>>
    /\ obs' = <<>>
    /\ waited' = NotWaited
    /\ changed' = FALSE
    /\ UNCHANGED <<id, args, status, pageVars, aclVars, resVars>>

\* the end of a wait: the standalone call returns, the delete handler goes on
EndWait(w) ==
    /\ waited' = [state |-> w.state, err |-> w.err]
    /\ pc' = (IF op = "fip_delete" THEN "done" ELSE "idle")
    /\ IF op = "fip_delete"
       THEN /\ result' = FipDeleteAfterWait(w, id).result
            /\ id' = FipDeleteAfterWait(w, id).id
       ELSE /\ result' = (IF w.err = Nil THEN "ok" ELSE w.err)
            /\ UNCHANGED id

\* one refresh of the wait for deletion
DeleteRefresh ==
    /\ pc = "wait_deleted"
    /\ Len(obs) < MaxPolls
    /\ \E g \in StatusResponses :
         LET w == WaitForStateStep(DeletedConf, DeleteRefreshFunc(g))
         IN  /\ obs' = Append(obs, g)
             /\ calls' = Append(calls, "Get")
             /\ IF w.next = "end"
                THEN EndWait(w)
                ELSE UNCHANGED <<pc, result, id, waited>>
    /\ UNCHANGED <<op, id0, args, status, changed, pageVars, aclVars, resVars>>

\* one refresh of the wait for availability
AvailableRefresh ==
    /\ pc = "wait_available"
    /\ Len(obs) < MaxPolls
    /\ \E g \in StatusResponses :
         LET w == WaitForStateStep(AvailableConf, RefreshFunc(g))
         IN  /\ obs' = Append(obs, g)
             /\ calls' = Append(calls, "Get")
             /\ status' = SetStatus(status, g)
             /\ IF w.next = "end"
                THEN EndWait(w)
                ELSE UNCHANGED <<pc, result, id, waited>>
    /\ UNCHANGED <<op, id0, args, changed, pageVars, aclVars, resVars>>

\* the timeout of a wait expires
WaitTimeout ==
    /\ pc \in {"wait_deleted", "wait_available"}
    /\ EndWait(WaitForStateTimeout)
    /\ UNCHANGED <<op, id0, args, calls, obs, status, changed, pageVars, aclVars, resVars>>

\* ------------------------------------------------------ specifications
InitFip ==
    /\ pc = "idle"
    /\ op = "none"
    /\ result = "none"
    /\ start = ""
    /\ allrecs = <<>>
    /\ reqs = <<>>
    /\ resps = <<>>
    /\ deleted = <<>>
    /\ attr = Nil
    /\ id \in Strings(MaxIdLen)
    /\ id0 = id
    /\ args = <<>>
    /\ calls = <<>>
    /\ obs = <<>>
    /\ status = Nil
    /\ waited = NotWaited
    /\ changed = FALSE
    /\ rules = <<>>
    /\ cfg = NoCfg
    /\ made = <<>>
    /\ logged = <<>>
    /\ rtype = "floating_ip"
    /\ got = NoGet

NextFip ==
    \/ FipCreate
    \/ FipRead
    \/ FipUpdate
    \/ FipDelete
    \/ DeleteRefresh
    \/ WaitTimeout

SpecFip == InitFip /\ [][NextFip]_vars

InitPoll ==
    /\ pc = "idle"
    /\ op = "none"
    /\ result = "none"
    /\ start = ""
    /\ allrecs = <<>>
    /\ reqs = <<>>
    /\ resps = <<>>
    /\ deleted = <<>>
    /\ attr = Nil
    /\ id = <<"a", Sep, "a", Sep, "b">>
    /\ id0 = id
    /\ args = <<<<"a">>, <<"a">>, <<"b">>>>
    /\ calls = <<>>
    /\ obs = <<>>
    /\ status \in Statuses \cup {Nil}
    /\ waited = NotWaited
    /\ changed = FALSE
    /\ rules = <<>>
    /\ cfg = NoCfg
    /\ made = <<>>
    /\ logged = <<>>
    /\ rtype = "floating_ip"
    /\ got = NoGet

NextPoll ==
    \/ WaitDeletedBegin
    \/ WaitAvailableBegin
    \/ DeleteRefresh
    \/ AvailableRefresh
    \/ WaitTimeout

SpecPoll == InitPoll /\ [][NextPoll]_vars

\* ------------------------------------------ claims on the composite id
NonEmptyParts(t) == \A i \in 1..Len(t) : t[i] /= Empty
SepFreeParts(t) == \A i \in 1..Len(t) : ~Contains(t[i], Sep)
CreatedId == op = "fip_create" /\ pc = "done" /\ result = "ok"
ParsesTo(s, t) ==
    ParseNICFipTerraformID(s) = [a |-> t[1], b |-> t[2], c |-> t[3], err |-> Nil]

\* C4 as stated: for all three non-empty components, parsing the identifier
\* made from them returns the three components and no error.
C4_RoundTripAnyComponents ==
    (CreatedId /\ NonEmptyParts(args)) => ParsesTo(id, args)

\* C4 amended: for all three non-empty components that contain no '/',
\* parsing the identifier made from them returns exactly the three components
\* and no error.
C4_RoundTrip ==
    (CreatedId /\ NonEmptyParts(args) /\ SepFreeParts(args)) => ParsesTo(id, args)

C4_Witness ==
    /\ CreatedId
    /\ args = <<<<"a">>, <<"a", "a">>, <<"b">>>>
    /\ id = <<"a", Sep, "a", "a", Sep, "b">>

\* an identifier that is not three non-empty segments separated by '/',
\* stated on the characters
NumSep(s) == Cardinality({i \in 1..Len(s) : s[i] = Sep})
Malformed(s) ==
    \/ NumSep(s) /= 2
    \/ s[1] = Sep
    \/ s[Len(s)] = Sep
    \/ \E i \in 1..(Len(s) - 1) : s[i] = Sep /\ s[i + 1] = Sep

RejectedUnparsed ==
    /\ result = "sep-id-parts"
    /\ args = <<Empty, Empty, Empty>>
    /\ calls = <<>>
    /\ id = id0

\* C5 as stated: on a malformed identifier the read, update and delete
\* operations return the parse error (the parse giving three empty strings)
\* before the client is initialised or any remote call is made, and leave the
\* identifier unchanged.
C5_MalformedIdRejectedByAll ==
    (pc = "done" /\ op \in {"fip_read", "fip_update", "fip_delete"} /\ Malformed(id0))
        => RejectedUnparsed

\* C5 amended: read and delete do so always, update does so when the floating
\* IP id has changed; an update without that change returns no error, without
\* initialising the client or making a remote call, and leaves the identifier
\* unchanged.
C5_MalformedIdRejected ==
    (pc = "done" /\ Malformed(id0)) =>
        /\ (op \in {"fip_read", "fip_delete"} \/ (op = "fip_update" /\ changed))
               => RejectedUnparsed
        /\ (op = "fip_update" /\ ~changed)
               => (result = "ok" /\ calls = <<>> /\ id = id0)

C5_Witness ==
    /\ pc = "done"
    /\ op = "fip_delete"
    /\ id0 = <<"a", Sep, Sep, "a">>
    /\ RejectedUnparsed

\* ---------------------------------------------------- claims on the pollers
LastObs == obs[Len(obs)]
AllGets == [i \in 1..Len(obs) |-> "Get"]
Returned(st) == waited = [state |-> st, err |-> Nil]
\* a fetch that shows no terminal state of the running wait
NonTerminal(g) ==
    IF op = "wait_available"
    THEN ~g.err /\ g.status \notin {"available", "failed"}
    ELSE ~g.err
NoTerminalSeen == \A k \in 1..Len(obs) : NonTerminal(obs[k])

\* C8: in the wait for availability, when the fetches return n >= 0
\* non-terminal statuses and then available, the wait returns available with
\* no error after exactly n+1 fetches, and no fetch follows a terminal one.
C8_AvailableAfterPending ==
    op = "wait_available" =>
        /\ \A k \in 1..(Len(obs) - 1) : NonTerminal(obs[k])
        /\ (obs /= <<>> /\ ~LastObs.err /\ LastObs.status = "available") =>
               /\ pc = "idle"
               /\ Returned("available")
               /\ result = "ok"
               /\ calls = AllGets

C8_Witness ==
    /\ op = "wait_available"
    /\ Len(obs) = 3
    /\ obs[1].status = "pending" /\ obs[2].status = "pending"
    /\ obs[3].status = "available"
    /\ Returned("available")
    /\ Len(calls) = 3

\* C9: a wait (for deletion or for availability) whose fetches showed no
\* terminal state and that has returned, has returned the timeout error and
\* not success; the timeout error is returned in no other case, a failed
\* fetch gives a different error.
C9_TimeoutWithoutTerminal ==
    waited /= NotWaited =>
        /\ NoTerminalSeen => (waited = [state |-> Nil, err |-> "timeout"] /\ result /= "ok")
        /\ waited.err = "timeout" => NoTerminalSeen
        /\ (obs /= <<>> /\ LastObs.err /\ LastObs.code /= 404) => waited.err = "get-error"

C9_Witness ==
    /\ op = "wait_deleted"
    /\ pc = "idle"
    /\ Len(obs) = 3
    /\ \A k \in 1..3 : ~obs[k].err /\ obs[k].status = "deleting"
    /\ waited = [state |-> Nil, err |-> "timeout"]

\* C10: in the wait for deletion, a fetch answered with 404 ends the wait at
\* once with the state deleted and no error, after any number of fetches that
\* found the floating IP.
C10_NotFoundIsDeleted ==
    (op = "wait_deleted" /\ obs /= <<>> /\ LastObs.err /\ LastObs.code = 404) =>
        /\ pc = "idle"
        /\ Returned("deleted")
        /\ result = "ok"
        /\ calls = AllGets
        /\ \A k \in 1..(Len(obs) - 1) : ~obs[k].err

C10_Witness ==
    /\ op = "wait_deleted"
    /\ Len(obs) = 3
    /\ ~obs[1].err /\ obs[1].status = "pending"
    /\ ~obs[2].err /\ obs[2].status = "deleting"
    /\ obs[3].err /\ obs[3].code = 404
    /\ Returned("deleted")

\* C11: a failed status fetch is the last fetch of its wait: the wait returns
\* at once with the fetch error, except a 404 in the wait for deletion, which
\* returns the state deleted and no error; in the wait for availability a 404
\* is an error like any other.
C11_FetchErrorEndsWait ==
    op \in {"wait_deleted", "wait_available"} =>
        \A k \in 1..Len(obs) : obs[k].err =>
            /\ k = Len(obs)
            /\ pc = "idle"
            /\ calls = AllGets
            /\ IF op = "wait_deleted" /\ obs[k].code = 404
               THEN Returned("deleted") /\ result = "ok"
               ELSE waited = [state |-> Nil, err |-> "get-error"] /\ result = "get-error"

C11_Witness ==
    /\ op = "wait_available"
    /\ Len(obs) = 2
    /\ ~obs[1].err /\ obs[1].status = "pending"
    /\ obs[2].err /\ obs[2].code = 404
    /\ waited = [state |-> Nil, err |-> "get-error"]

\* the last successful fetch of the running wait, if there is one
OkFetches == {k \in 1..Len(obs) : ~obs[k].err}
LastOkFetch == obs[CHOOSE k \in OkFetches : \A j \in OkFetches : j <= k]

\* C12: in the wait for availability the status attribute equals the status of
\* the most recent successful fetch, also once the wait has returned with
\* success, an error or a timeout; a successful fetch writes the fetched
\* status, a failed fetch and the timeout leave the attribute unchanged.
C12_StatusFollowsFetch ==
    /\ [](op = "wait_available" /\ OkFetches /= {} => status = LastOkFetch.status)
    /\ [][pc = "wait_available" =>
             IF obs' /= obs
             THEN /\ Len(obs') = Len(obs) + 1
                  /\ status' = (IF obs'[Len(obs')].err THEN status ELSE obs'[Len(obs')].status)
             ELSE status' = status]_vars

C12_Witness ==
    /\ op = "wait_available"
    /\ pc = "idle"
    /\ Len(obs) = 2
    /\ ~obs[1].err /\ obs[1].status = "deleting"
    /\ obs[2].err
    /\ waited.err = "get-error"
    /\ status = "deleting"

\* ------------------------------------------- network ACL create and update
RuleActions == {"allow", "drop"}             \* action strings a rule can carry
RuleDirections == {"inbound", "sideways"}    \* direction strings a rule can carry
\* a rule of the configuration: icmp, tcp, udp are the lengths of its sub-blocks
RuleValues ==
    [action : RuleActions, direction : RuleDirections,
     icmp : 0..1, tcp : 0..1, udp : 0..1]
RuleLists == SeqsUpTo(RuleValues, MaxRules)

\* a rule as nwaclGet writes it into the state from a rule of the server
StoredRule(r) ==
    /\ r.action \in {"allow", "deny"}
    /\ r.direction \in {"inbound", "outbound"}
    /\ r.icmp + r.tcp + r.udp <= 1
StoredRuleLists == {rls \in RuleLists : \A i \in 1..Len(rls) : StoredRule(rls[i])}

\* the body of the loop of validateInlineRules: the error one rule gives, Nil
\* if none; the direction is read and lower-cased but compared with nothing
RuleError(r) ==
    IF r.action /= "allow" /\ r.action /= "deny"
    THEN "Invalid action"
    ELSE IF (r.icmp > 0 /\ r.tcp > 0) \/ (r.icmp > 0 /\ r.udp > 0) \/ (r.tcp > 0 /\ r.udp > 0)
         THEN "Only one of icmp|tcp|udp"
         ELSE Nil

\* mutant: only the first rule is validated
validateInlineRulesFirstOnly(rls) ==
    IF rls = <<>> THEN Nil ELSE RuleError(rls[1])

\* validateInlineRules: the error of the first rule that has one
validateInlineRules(rls) ==
    IF \A i \in 1..Len(rls) : RuleError(rls[i]) = Nil
    THEN Nil
    ELSE RuleError(rls[CHOOSE i \in 1..Len(rls) :
                          /\ RuleError(rls[i]) /= Nil
                          /\ \A j \in 1..(i - 1) : RuleError(rls[j]) = Nil])

\* the protocol createInlineRules sends for a rule
RuleProtocol(r) ==
    IF r.icmp > 0 THEN "icmp"
    ELSE IF r.tcp > 0 THEN "tcp"
    ELSE IF r.udp > 0 THEN "udp"
    ELSE "all"

\* mutant: every rule after the first is placed before the one created last
RuleBeforeChained(m) == IF m = <<>> THEN "" ELSE "previous"

\* the variable before of createInlineRules when the calls m have been made:
\* it is set to "" ahead of the loop and assigned nowhere in it
RuleBefore(m) == ""

\* the NetworkACLRulePrototype createInlineRules sends for the rule r; the
\* field before is left unset when the variable before is ""
RulePrototype(r, before) ==
    [action |-> r.action, direction |-> r.direction, protocol |-> RuleProtocol(r),
     before |-> before]

\* mutant: both tag calls are made when either tag set changed
TagCallsBoth(tg, atg) ==
    IF tg \/ atg
    THEN <<"UpdateGlobalTagsUsingCRN:user", "UpdateGlobalTagsUsingCRN:access">>
    ELSE <<>>

\* the UpdateGlobalTagsUsingCRN calls of a tag synchronisation
TagCalls(tg, atg) ==
    (IF tg THEN <<"UpdateGlobalTagsUsingCRN:user">> ELSE <<>>) \o
    (IF atg THEN <<"UpdateGlobalTagsUsingCRN:access">> ELSE <<>>)

\* mutant: a failed tag call is not logged
TagLogsNone(tg, tagOk, atg, atagOk) == <<>>

\* what a tag synchronisation logs: the calls that failed
TagLogs(tg, tagOk, atg, atagOk) ==
    (IF tg /\ ~tagOk THEN <<"user tags">> ELSE <<>>) \o
    (IF atg /\ ~atagOk THEN <<"access tags">> ELSE <<>>)

\* mutant: the identifier is not set after CreateNetworkACL
NewAclIdUnset == UnsetId

\* d.SetId(*nwacl.ID) after a successful CreateNetworkACL: the identifier set
NewAclId == "acl1"

\* nwaclCreate up to its call of clearRules
NwaclCreateBegin ==
    /\ pc = "idle"
    /\ rtype = "network_acl"
    /\ id = UnsetId
    /\ op' = "nwacl_create"
    /\ \E clientOk, vpcSet, createOk \in BOOLEAN, rls \in RuleLists :
         IF ~clientOk
         THEN /\ pc' = "done"
              /\ result' = "initialize-client"
              /\ calls' = <<"vpcClient">>
              /\ UNCHANGED <<id, rules, cfg>>
         ELSE IF ~vpcSet
         THEN \* err.Error() is called on the nil err of vpcClient
              /\ pc' = "done"
              /\ result' = "panic"
              /\ calls' = <<"vpcClient">>
              /\ UNCHANGED <<id, rules, cfg>>
         ELSE IF validateInlineRules(rls) /= Nil
         THEN /\ pc' = "done"
              /\ result' = "validate-inline-rules"
              /\ calls' = <<"vpcClient">>
              /\ rules' = rls
              /\ cfg' = [cfg EXCEPT !.vpc = TRUE]
              /\ UNCHANGED id
         ELSE /\ calls' = <<"vpcClient", "CreateNetworkACL">>
              /\ rules' = rls
              /\ cfg' = [cfg EXCEPT !.vpc = TRUE]
              /\ IF ~createOk
                 THEN /\ pc' = "done"
                      /\ result' = "CreateNetworkACL failed"
                      /\ UNCHANGED id
                 ELSE /\ id' = NewAclId
                      /\ pc' = "clear_list"
                      /\ result' = "none"
    /\ start' = ""
    /\ allrecs' = <<>>
    /\ UNCHANGED <<reqs, resps, deleted, attr, id0, args, obs, status, waited,
                   changed, made, logged, resVars>>

\* nwaclUpdate up to its call of clearRules: the patch of the name, the two
\* tag synchronisations, and the validation of the rules if they changed
NwaclUpdateBegin ==
    /\ pc = "idle"
    /\ rtype = "network_acl"
    /\ id = "acl1"
    /\ op' = "nwacl_update"
    /\ \E clientOk, hasChanged, tg, atg, rulesChanged, patchOk, tagOk, atagOk \in BOOLEAN :
       \E rls \in (IF rulesChanged THEN RuleLists ELSE StoredRuleLists) :
         IF ~clientOk
         THEN /\ pc' = "done"
              /\ result' = "initialize-client"
              /\ calls' = <<"vpcClient">>
              /\ UNCHANGED <<rules, cfg, logged>>
         ELSE IF hasChanged /\ ~patchOk
         THEN /\ pc' = "done"
              /\ result' = "UpdateNetworkACL failed"
              /\ calls' = <<"vpcClient", "UpdateNetworkACL">>
              /\ rules' = rls
              /\ cfg' = [cfg EXCEPT !.hasChanged = TRUE]
              /\ UNCHANGED logged
         ELSE /\ calls' = <<"vpcClient">> \o
                          (IF hasChanged THEN <<"UpdateNetworkACL">> ELSE <<>>) \o
                          TagCalls(tg, atg)
              /\ logged' = TagLogs(tg, tagOk, atg, atagOk)
              /\ rules' = rls
              /\ cfg' = [cfg EXCEPT !.hasChanged = hasChanged, !.tags = tg,
                                    !.accessTags = atg, !.rulesChanged = rulesChanged]
              /\ IF ~rulesChanged
                 THEN pc' = "done" /\ result' = "ok"
                 ELSE IF validateInlineRules(rls) /= Nil
                      THEN pc' = "done" /\ result' = "validateInlineRules failed"
                      ELSE pc' = "clear_list" /\ result' = "none"
    /\ start' = ""
    /\ allrecs' = <<>>
    /\ UNCHANGED <<reqs, resps, deleted, attr, id, id0, args, obs, status, waited,
                   changed, made, resVars>>

\* one iteration of the loop of createInlineRules
CreateNetworkACLRule ==
    /\ pc = "create_rules"
    /\ Len(made) < Len(rules)
    /\ made' = Append(made, RulePrototype(rules[Len(made) + 1], RuleBefore(made)))
    /\ \E ok \in BOOLEAN :
         IF ~ok
         THEN pc' = "done" /\ result' = "createInlineRules failed"
         ELSE IF Len(made') = Len(rules)
              THEN /\ pc' = AfterCreateRules(op).pc
                   /\ result' = AfterCreateRules(op).result
              ELSE UNCHANGED <<pc, result>>
    /\ UNCHANGED <<op, pageVars, id, fipVars, rules, cfg, logged, resVars>>

\* the tag synchronisations that end nwaclCreate
NwaclCreateTags ==
    /\ pc = "create_tags"
    /\ \E tagsSet, envTags, atg, tagOk, atagOk \in BOOLEAN :
         LET tg == tagsSet \/ envTags
         IN  /\ calls' = calls \o TagCalls(tg, atg)
             /\ logged' = logged \o TagLogs(tg, tagOk, atg, atagOk)
             /\ cfg' = [cfg EXCEPT !.tags = tg, !.accessTags = atg]
    /\ pc' = "done"
    /\ result' = "ok"
    /\ UNCHANGED <<op, pageVars, id, id0, args, obs, status, waited, changed,
                   rules, made, resVars>>

\* the rules GetNetworkACL can return: the concrete type and the protocol
ServerRules ==
    {[kind |-> "icmp", protocol |-> "icmp"], [kind |-> "tcpudp", protocol |-> "tcp"],
     [kind |-> "tcpudp", protocol |-> "udp"], [kind |-> "all", protocol |-> "all"]}

\* what GetNetworkACL can answer
AclGetResponses ==
    {[err |-> FALSE, code |-> 200, rules |-> rs] : rs \in SeqsUpTo(ServerRules, MaxRules)}
    \cup {[err |-> TRUE, code |-> c, rules |-> <<>>] : c \in {404, 500}}

\* mutant: every tcp/udp rule of the server is read as a tcp rule
ReadRuleTcpOnly(sr) ==
    CASE sr.kind = "icmp" -> [icmp |-> 1, tcp |-> 0, udp |-> 0]
      [] sr.kind = "tcpudp" -> [icmp |-> 0, tcp |-> 1, udp |-> 0]
      [] OTHER -> [icmp |-> 0, tcp |-> 0, udp |-> 0]

\* the rule map nwaclGet builds from a rule of the server, by its type switch:
\* the lengths of the icmp, tcp and udp lists
ReadRule(sr) ==
    CASE sr.kind = "icmp" -> [icmp |-> 1, tcp |-> 0, udp |-> 0]
      [] sr.kind = "tcpudp" /\ sr.protocol = "tcp" -> [icmp |-> 0, tcp |-> 1, udp |-> 0]
      [] sr.kind = "tcpudp" /\ sr.protocol = "udp" -> [icmp |-> 0, tcp |-> 0, udp |-> 1]
      [] OTHER -> [icmp |-> 0, tcp |-> 0, udp |-> 0]

\* resourceIBMISNetworkACLDelete and nwaclDelete
NwaclDelete ==
    /\ pc = "idle"
    /\ rtype = "network_acl"
    /\ id = "acl1"
    /\ op' = "nwacl_delete"
    /\ pc' = "done"
    /\ \E clientOk, deleteOk \in BOOLEAN, g \in AclGetResponses :
         IF ~clientOk
         THEN /\ result' = "initialize-client"
              /\ calls' = <<"vpcClient">>
              /\ got' = NoGet
              /\ UNCHANGED id
         ELSE /\ got' = [err |-> g.err, code |-> g.code]
              /\ IF NotFound(g)
                 THEN /\ result' = "ok"
                      /\ calls' = <<"vpcClient", "GetNetworkACL">>
                      /\ id' = UnsetId
                 ELSE IF g.err
                 THEN /\ result' = "GetNetworkACL failed"
                      /\ calls' = <<"vpcClient", "GetNetworkACL">>
                      /\ UNCHANGED id
                 ELSE /\ calls' = <<"vpcClient", "GetNetworkACL", "DeleteNetworkACL">>
                      /\ IF deleteOk
                         THEN result' = "ok" /\ id' = UnsetId
                         ELSE result' = "DeleteNetworkACL failed" /\ UNCHANGED id
    /\ UNCHANGED <<pageVars, id0, args, obs, status, waited, changed, aclVars, rtype>>

\* the pair (bool, error) nwaclExists returns, as one value
ExistsReturn(exists, err) ==
    IF err = Nil
    THEN (IF exists THEN "true" ELSE "false")
    ELSE (IF exists THEN "true: " ELSE "false: ") \o err

\* resourceIBMISNetworkACLExists and nwaclExists
NwaclExists ==
    /\ pc = "idle"
    /\ rtype = "network_acl"
    /\ id = "acl1"
    /\ op' = "nwacl_exists"
    /\ pc' = "done"
    /\ \E clientOk \in BOOLEAN, g \in AclGetResponses :
         IF ~clientOk
         THEN /\ result' = ExistsReturn(FALSE, "initialize-client")
              /\ calls' = <<"vpcClient">>
              /\ got' = NoGet
         ELSE /\ got' = [err |-> g.err, code |-> g.code]
              /\ calls' = <<"vpcClient", "GetNetworkACL">>
              /\ result' = IF NotFound(g) THEN ExistsReturn(FALSE, Nil)
                           ELSE IF g.err THEN ExistsReturn(FALSE, "GetNetworkACL failed")
                           ELSE ExistsReturn(TRUE, Nil)
    /\ UNCHANGED <<pageVars, id, id0, args, obs, status, waited, changed, aclVars, rtype>>

\* nwaclGet when the Get call is answered from gs; calls0 and logged0 are the
\* calls made and the failures logged before it; attr holds the attributes
\* written
nwaclGet(gs, calls0, logged0) ==
    \E clientOk \in BOOLEAN :
         IF ~clientOk
         THEN /\ result' = "initialize-client"
              /\ calls' = calls0 \o <<"vpcClient">>
              /\ got' = NoGet
              /\ logged' = logged0
              /\ UNCHANGED <<id, attr>>
         ELSE \E g \in gs :
              IF NotFound(g)
              THEN /\ result' = "ok"
                   /\ calls' = calls0 \o <<"vpcClient", "GetNetworkACL">>
                   /\ got' = [err |-> g.err, code |-> g.code]
                   /\ id' = UnsetId
                   /\ logged' = logged0
                   /\ UNCHANGED attr
              ELSE IF g.err
              THEN /\ result' = "GetNetworkACL failed"
                   /\ calls' = calls0 \o <<"vpcClient", "GetNetworkACL">>
                   /\ got' = [err |-> g.err, code |-> g.code]
                   /\ logged' = logged0
                   /\ UNCHANGED <<id, attr>>
              ELSE \E tagOk, atagOk, controllerOk \in BOOLEAN :
                   /\ calls' = calls0 \o <<"vpcClient", "GetNetworkACL",
                                           "GetGlobalTagsUsingCRN:user",
                                           "GetGlobalTagsUsingCRN:access">>
                   /\ got' = [err |-> g.err, code |-> g.code]
                   /\ logged' = logged0 \o TagLogs(TRUE, tagOk, TRUE, atagOk)
                   /\ attr' = [tags |-> tagOk, access_tags |-> atagOk,
                               rules |-> [i \in 1..Len(g.rules) |-> ReadRule(g.rules[i])],
                               resource_name |-> controllerOk]
                   /\ result' = (IF controllerOk THEN "ok" ELSE "GetBaseController failed")
                   /\ UNCHANGED id

\* resourceIBMISNetworkACLRead called by the engine
NwaclRead ==
    /\ pc = "idle"
    /\ rtype = "network_acl"
    /\ id = "acl1"
    /\ op' = "nwacl_read"
    /\ pc' = "done"
    /\ nwaclGet(AclGetResponses, <<>>, <<>>)
    /\ UNCHANGED <<start, allrecs, reqs, resps, deleted, id0, args, obs, status, waited,
                   changed, rules, cfg, made, rtype>>

\* the rule the server holds for a rule created with the protocol p
ServerRule(p) ==
    [kind |-> (IF p = "icmp" THEN "icmp" ELSE IF p = "all" THEN "all" ELSE "tcpudp"),
     protocol |-> p]

\* the rules of the ACL on the server after nwaclCreate or nwaclUpdate returned
\* nil: the rules created, or the stored ones when the rules did not change
RulesOnServer ==
    IF op = "nwacl_create" \/ cfg.rulesChanged
    THEN [i \in 1..Len(made) |-> ServerRule(made[i].protocol)]
    ELSE [i \in 1..Len(rules) |-> ServerRule(RuleProtocol(rules[i]))]

\* what GetNetworkACL can answer then
AclGetResponsesAfter ==
    {[err |-> FALSE, code |-> 200, rules |-> RulesOnServer]}
    \cup {[err |-> TRUE, code |-> c, rules |-> <<>>] : c \in {404, 500}}

\* resourceIBMISNetworkACLRead called at the end of resourceIBMISNetworkACLCreate
\* and of resourceIBMISNetworkACLUpdate, when nwaclCreate or nwaclUpdate
\* returned nil
NwaclReadAfter ==
    /\ pc = "done"
    /\ rtype = "network_acl"
    /\ op \in {"nwacl_create", "nwacl_update"}
    /\ result = "ok"
    /\ pc' = "read_done"
    /\ nwaclGet(AclGetResponsesAfter, calls, logged)
    /\ UNCHANGED <<op, start, allrecs, reqs, resps, deleted, id0, args, obs, status, waited,
                   changed, rules, cfg, made, rtype>>

InitAcl ==
    /\ pc = "idle"
    /\ op = "none"
    /\ result = "none"
    /\ start = ""
    /\ allrecs = <<>>
    /\ reqs = <<>>
    /\ resps = <<>>
    /\ deleted = <<>>
    /\ attr = Nil
    /\ id \in {UnsetId, "acl1"}
    /\ id0 = UnsetId
    /\ args = <<>>
    /\ calls = <<>>
    /\ obs = <<>>
    /\ status = Nil
    /\ waited = NotWaited
    /\ changed = FALSE
    /\ rules = <<>>
    /\ cfg = NoCfg
    /\ made = <<>>
    /\ logged = <<>>
    /\ rtype = "network_acl"
    /\ got = NoGet

NextAcl ==
    \/ NwaclCreateBegin
    \/ NwaclUpdateBegin
    \/ ListNetworkACLRules
    \/ DeleteNetworkACLRule
    \/ CreateNetworkACLRule
    \/ NwaclCreateTags
    \/ NwaclRead
    \/ NwaclDelete

SpecAcl == InitAcl /\ [][NextAcl]_vars

\* -------------------------------------- claims on network ACL validation
AclOps == {"nwacl_create", "nwacl_update"}
MultiProtocol(r) == (r.icmp > 0 /\ r.tcp > 0) \/ (r.icmp > 0 /\ r.udp > 0) \/ (r.tcp > 0 /\ r.udp > 0)
HasConflict(rls) == \E i \in 1..Len(rls) : MultiProtocol(rls[i])
BadEnum(r) == r.action \notin {"allow", "deny"} \/ r.direction \notin {"inbound", "outbound"}
HasBadEnum(rls) == \E i \in 1..Len(rls) : BadEnum(rls[i])
ValidationErrors == {"validate-inline-rules", "validateInlineRules failed"}
\* nothing but the client initialisation has happened: no CreateNetworkACL, no
\* patch, no tag call, no rule list, delete or create call
NoRemoteCall ==
    /\ \A i \in 1..Len(calls) : calls[i] = "vpcClient"
    /\ reqs = <<>>
    /\ deleted = <<>>
    /\ made = <<>>

\* C6: a network ACL create or update whose rule list has a rule with more than
\* one of its icmp, tcp and udp sub-blocks non-empty fails with a validation
\* error before any remote call is made.
C6_ConflictFailsBeforeAnyCall ==
    (op \in AclOps /\ HasConflict(rules)) =>
        /\ pc = "done"
        /\ result \in ValidationErrors
        /\ NoRemoteCall

\* C7: validateInlineRules rejects every rule whose action is not allow or deny
\* and every rule whose direction is not inbound or outbound, and network ACL
\* create returns that validation error before any remote call.
C7_InvalidEnumRejected ==
    (op = "nwacl_create" /\ HasBadEnum(rules)) =>
        /\ validateInlineRules(rules) /= Nil
        /\ pc = "done"
        /\ result = "validate-inline-rules"
        /\ NoRemoteCall

\* ------------------------------------------ claims on network ACL create
RuleIds(recs) == [i \in 1..Len(recs) |-> recs[i].id]
\* a create that got past the client, the vpc and the validation with no rules
EmptyCreate == op = "nwacl_create" /\ cfg.vpc /\ rules = <<>>

HasTagCall ==
    \E k \in 1..Len(calls) :
        calls[k] \in {"UpdateGlobalTagsUsingCRN:user", "UpdateGlobalTagsUsingCRN:access",
                      "GetGlobalTagsUsingCRN:user", "GetGlobalTagsUsingCRN:access"}

InitRead == (InitAcl /\ id = "acl1") \/ InitFip

NextRead ==
    \/ NwaclRead
    \/ FipRead
    \/ NwaclExists

SpecRead == InitRead /\ [][NextRead]_vars

\* the identifier is cleared, in the representation of the resource
IdCleared == IF rtype = "network_acl" THEN id = UnsetId ELSE id = Empty
\* the identifier is the one the read was invoked with
IdKept == IF rtype = "network_acl" THEN id = "acl1" ELSE id = id0
\* no attribute has been written
NoAttrWritten == attr = Nil /\ status = Nil /\ logged = <<>>

\* C14: a read of a network ACL or of a floating IP attachment whose Get call
\* fails with 404 clears the identifier, returns no error and writes no other
\* attribute; a Get that fails with another status makes the read return an
\* error with the identifier unchanged.
C14_ReadNotFoundClearsId ==
    (op \in {"nwacl_read", "fip_read"} /\ got.err) =>
        /\ pc = "done"
        /\ Len(calls) = 2
        /\ NoAttrWritten
        /\ IF got.code = 404
           THEN result = "ok" /\ IdCleared
           ELSE result \in {"GetNetworkACL failed", "get-failed"} /\ IdKept

C14_Witness ==
    /\ op = "fip_read"
    /\ got.err /\ got.code = 404
    /\ id0 = <<"a", Sep, "a", Sep, "a">>
    /\ id = Empty
    /\ result = "ok"

\* C16: nwaclExists returns (true, nil) exactly when its Get succeeds,
\* (false, nil) exactly when the Get fails with 404, and (false, error) for
\* every other failure, a failed client initialisation included; it makes at
\* most one remote call and changes nothing in the resource data.
C16_ExistsResult ==
    op = "nwacl_exists" =>
        /\ pc = "done"
        /\ result \in {"true", "false", "false: initialize-client", "false: GetNetworkACL failed"}
        /\ result = "true" <=> (got /= NoGet /\ ~got.err)
        /\ result = "false" <=> (got.err /\ got.code = 404)
        /\ result = "false: initialize-client" <=> calls = <<"vpcClient">>
        /\ result = "false: GetNetworkACL failed" <=> (got.err /\ got.code /= 404)
        /\ Len(SelectSeq(calls, LAMBDA c : c /= "vpcClient")) <= 1
        /\ id = "acl1"
        /\ NoAttrWritten

C16_Witness ==
    /\ op = "nwacl_exists"
    /\ got.err /\ got.code = 404
    /\ result = "false"

\* ------------------------------------------------ the two delete handlers
NextDelete ==
    \/ NwaclDelete
    \/ FipDelete
    \/ DeleteRefresh
    \/ WaitTimeout

SpecDelete == InitRead /\ [][NextDelete]_vars

\* C15: when the Get that precedes a delete answers 404, the delete of a
\* network ACL and the delete of a floating IP attachment return no error,
\* issue no Delete / Remove call and no status fetch, and clear the identifier.
C15_DeleteNotFoundClearsId ==
    (op \in {"nwacl_delete", "fip_delete"} /\ got.err /\ got.code = 404) =>
        /\ pc = "done"
        /\ result = "ok"
        /\ Len(calls) = 2
        /\ obs = <<>>
        /\ IdCleared


\* --------------------- every handler of the two resources, for the failures
InitOps == InitAcl \/ InitFip

NextOps == NextAcl \/ NextFip

SpecOps == InitOps /\ [][NextOps]_vars

\* the call c is in calls exactly once and is the last one
LastCallOnce(c) ==
    /\ calls /= <<>>
    /\ calls[Len(calls)] = c
    /\ Len(SelectSeq(calls, LAMBDA x : x = c)) = 1

\* no list, delete or create call on the rules has been made
NoRuleCall == reqs = <<>> /\ deleted = <<>> /\ made = <<>>

\* the handler has returned an error
ReturnedError == pc = "done" /\ result \notin {"ok", "none"}

\* the failure of a call that is not a tag call ends the handler: the failed
\* call is its last remote call, made once, and the handler has returned an
\* error
FatalFailureEnds ==
    /\ result \in {"CreateNetworkACL failed", "UpdateNetworkACL failed"} =>
           /\ pc = "done"
           /\ LastCallOnce(IF op = "nwacl_create" THEN "CreateNetworkACL" ELSE "UpdateNetworkACL")
           /\ NoRuleCall
           /\ logged = <<>>
    /\ result = "GetNetworkACL failed" =>
           pc = "done" /\ LastCallOnce("GetNetworkACL") /\ got.err /\ got.code /= 404
    /\ result = "DeleteNetworkACL failed" =>
           pc = "done" /\ LastCallOnce("DeleteNetworkACL") /\ ~got.err
    /\ result = "clearRules failed" =>
           /\ pc = "done"
           /\ made = <<>>
           /\ resps /= <<>>
           /\ IF resps[Len(resps)].ok
              THEN deleted /= <<>> /\ Len(deleted) <= Len(allrecs)
              ELSE deleted = <<>>
           /\ op = "nwacl_create" => calls = <<"vpcClient", "CreateNetworkACL">>
    /\ result = "createInlineRules failed" =>
           /\ pc = "done"
           /\ made /= <<>>
           /\ Len(made) <= Len(rules)
           /\ op = "nwacl_create" => calls = <<"vpcClient", "CreateNetworkACL">>
    /\ \A k \in 1..Len(resps) : ~resps[k].ok =>
           k = Len(resps) /\ pc = "done" /\ result = "clearRules failed"
    /\ (op \in {"nwacl_read", "nwacl_delete", "fip_read", "fip_delete"}
            /\ got.err /\ got.code /= 404) =>
           /\ ReturnedError
           /\ result \in {"GetNetworkACL failed", "get-failed"}
           /\ obs = <<>>
    /\ result = "add-failed" => pc = "done" /\ LastCallOnce("Add")
    /\ result = "get-failed" =>
           pc = "done" /\ LastCallOnce("Get") /\ got.err /\ got.code /= 404 /\ obs = <<>>
    /\ result = "remove-failed" =>
           pc = "done" /\ LastCallOnce("Remove") /\ obs = <<>> /\ ~got.err

\* the statement as made, for every remote call, the tag calls included: a
\* failed one ends the handler with an error
C18_AnyFailureEndsOperation ==
    /\ FatalFailureEnds
    /\ logged /= <<>> => ReturnedError /\ HasTagCall

\* C18: outside the status pollers a failed remote call other than a tag call
\* is made once and is the last remote call of its handler, which returns an
\* error; a failed tag call is made once too, and is followed by the later
\* calls of the handler.
C18_FatalFailureEndsOperation ==
    /\ FatalFailureEnds
    /\ logged /= <<>> =>
           /\ HasTagCall
           /\ \A c \in {"UpdateGlobalTagsUsingCRN:user", "UpdateGlobalTagsUsingCRN:access",
                        "GetGlobalTagsUsingCRN:user", "GetGlobalTagsUsingCRN:access"} :
                  Len(SelectSeq(calls, LAMBDA x : x = c)) <= 1

\* a create whose second list call of clearRules failed
C18_Witness ==
    /\ op = "nwacl_create"
    /\ pc = "done"
    /\ result = "clearRules failed"
    /\ resps /= <<>>
    /\ ~resps[Len(resps)].ok
    /\ calls = <<"vpcClient", "CreateNetworkACL">>


\* -------------------------------- floating-IP create and delete, the waits
\* C19: a floating-IP create whose Add call succeeded has returned only after
\* the wait for availability fetched the status at least once and ended with
\* a terminal state (success), or with a timeout or a fetch error (error).
C19_CreateWaitsForTerminal ==
    (op = "fip_create" /\ pc = "done" /\ calls = <<"vpcClient", "Add">>
        /\ result /= "add-failed") =>
        /\ waited /= NotWaited
        /\ IF result = "ok"
           THEN obs /= <<>> /\ waited.err = Nil /\ waited.state \in {"available", "failed"}
           ELSE waited.err /= Nil


\* the pre-delete Get of the running delete found the floating IP
DeleteFound == op = "fip_delete" /\ got /= NoGet /\ ~got.err

\* C20: a floating-IP delete that found the attachment makes its remote calls
\* in the order Get, Remove, status fetches; the identifier is cleared only
\* when the wait for deletion has returned the state deleted without error, and
\* then the delete succeeds; a failed Remove, and a wait that returned a fetch
\* error or a timeout, make the delete return an error with the identifier as
\* it was.
C20_DeleteOrderAndId ==
    DeleteFound =>
        /\ Len(calls) >= 3
        /\ calls = <<"vpcClient", "Get", "Remove">> \o [k \in 1..Len(obs) |-> "Get"]
        /\ pc \in {"wait_deleted", "done"}
        /\ pc = "wait_deleted" => id = id0 /\ waited = NotWaited /\ result = "none"
        /\ id /= id0 =>
               /\ id = Empty
               /\ pc = "done"
               /\ result = "ok"
               /\ waited = [state |-> "deleted", err |-> Nil]
               /\ obs /= <<>>
               /\ obs[Len(obs)].err /\ obs[Len(obs)].code = 404
        /\ (pc = "done" /\ result = "ok") => id = Empty /\ id /= id0
        /\ result = "remove-failed" =>
               pc = "done" /\ obs = <<>> /\ id = id0 /\ waited = NotWaited
        /\ (pc = "done" /\ result /= "remove-failed") => waited /= NotWaited
        /\ (waited /= NotWaited /\ waited.err /= Nil) =>
               /\ pc = "done"
               /\ result = "wait-failed"
               /\ id = id0
               /\ waited.err \in {"get-error", "timeout"}

\* a delete whose wait saw the floating IP once more and then a 404
C20_Witness ==
    /\ DeleteFound
    /\ pc = "done"
    /\ result = "ok"
    /\ id = Empty
    /\ Len(obs) = 2
    /\ ~obs[1].err
    /\ calls = <<"vpcClient", "Get", "Remove", "Get", "Get">>

\* ------------------------------------------- network ACL update, its rules
\* a rule validateInlineRules refuses: a wrong action or several protocols
InvalidRule(r) == r.action \notin {"allow", "deny"} \/ MultiProtocol(r)
\* an update that got to its rules and found them changed
RulesUpdate == op = "nwacl_update" /\ cfg.rulesChanged

\* C21: a network ACL update whose rules changed validates, then deletes the
\* existing rules, then creates the configured ones: with an invalid rule it
\* makes no list, delete or create call on the rules; it makes no create call
\* before every listing succeeded and every listed rule was deleted; and when
\* it has succeeded it has made one create call per configured rule, in the
\* order of the configuration.
C21_UpdateRuleOrder ==
    RulesUpdate =>
        /\ (\E i \in 1..Len(rules) : InvalidRule(rules[i])) =>
               /\ pc = "done"
               /\ result = "validateInlineRules failed"
               /\ reqs = <<>> /\ deleted = <<>> /\ made = <<>>
        /\ (made /= <<>> \/ (pc = "done" /\ result = "ok")) =>
               /\ resps /= <<>>
               /\ \A k \in 1..Len(resps) : resps[k].ok
               /\ resps[Len(resps)].next = Nil
               /\ deleted = RuleIds(ConcatItems(resps))
        /\ Len(made) <= Len(rules)
        /\ \A i \in 1..Len(made) :
               /\ made[i].action = rules[i].action
               /\ made[i].direction = rules[i].direction
               /\ made[i].protocol = RuleProtocol(rules[i])
        /\ (pc = "done" /\ result = "ok") => Len(made) = Len(rules)

\* an update that deleted the one listed rule and created its two rules
C21_Witness ==
    /\ RulesUpdate
    /\ pc = "done"
    /\ result = "ok"
    /\ deleted = <<"r1">>
    /\ Len(made) = 2
    /\ made[1].protocol = "icmp"
    /\ made[2].protocol = "all"

\* createInlineRules is running or has returned, in a create or an update
InCreateRules == op \in AclOps /\ (pc = "create_rules" \/ made /= <<>>)

\* C22: createInlineRules makes its CreateNetworkACLRule calls one per rule in
\* the order of its input list, none with a before reference; a failed call
\* is its last one: the handler returns an error, the calls made ahead of it
\* stay as they are (no rule is deleted again), and the rules after it get no
\* call; without a failed call every rule gets its call.
C22_CreateInlineRules ==
    InCreateRules =>
        /\ Len(made) <= Len(rules)
        /\ \A i \in 1..Len(made) :
               /\ made[i].before = ""
               /\ made[i].action = rules[i].action
               /\ made[i].direction = rules[i].direction
               /\ made[i].protocol \in {"icmp", "tcp", "udp", "all"}
        /\ deleted = RuleIds(ConcatItems(resps))
        /\ pc = "create_rules" => Len(made) < Len(rules) /\ result = "none"
        /\ result = "createInlineRules failed" => pc = "done" /\ made /= <<>>
        /\ (pc /= "create_rules" /\ result /= "createInlineRules failed") =>
               /\ Len(made) = Len(rules)
               /\ pc \in {"create_tags", "done"}
               /\ pc = "done" => result = "ok"

\* the second of two calls failed: the first rule stays created
C22_Witness ==
    /\ InCreateRules
    /\ Len(rules) = 2
    /\ Len(made) = 2
    /\ pc = "done"
    /\ result = "createInlineRules failed"
    /\ deleted = <<"r1">>

\* ------------------------------------------------ network ACL create, the id
\* C23: a network ACL create that found no vpc in its configuration has
\* returned the parse-vpc error diagnostic (or, with no client, the
\* initialize-client one) and made no remote call.
C23_NoVpcGivesDiagnostic ==
    (op = "nwacl_create" /\ ~cfg.vpc) =>
        /\ pc = "done"
        /\ result \in {"initialize-client", "parse-vpc"}
        /\ NoRemoteCall

\* CreateNetworkACL has been called and has not failed
AclCreated ==
    /\ \E k \in 1..Len(calls) : calls[k] = "CreateNetworkACL"
    /\ result /= "CreateNetworkACL failed"

\* C24: in a network ACL create the identifier is set exactly from the
\* success of CreateNetworkACL on; when clearRules or createInlineRules fails
\* afterwards the create returns the error with the identifier still set and
\* without a DeleteNetworkACL call; when the validation or CreateNetworkACL
\* fails the identifier is unset.
C24_IdSetOnCreate ==
    op = "nwacl_create" =>
        /\ id = (IF AclCreated THEN "acl1" ELSE UnsetId)
        /\ \A k \in 1..Len(calls) : calls[k] /= "DeleteNetworkACL"
        /\ result \in {"clearRules failed", "createInlineRules failed"} =>
               pc = "done" /\ AclCreated /\ id = "acl1"
        /\ result \in {"validate-inline-rules", "CreateNetworkACL failed"} =>
               pc = "done" /\ ~AclCreated /\ id = UnsetId /\ reqs = <<>> /\ made = <<>>

\* a create whose rule call failed keeps the identifier of the new ACL
C24_Witness ==
    /\ op = "nwacl_create"
    /\ pc = "done"
    /\ result = "createInlineRules failed"
    /\ id = "acl1"
    /\ calls = <<"vpcClient", "CreateNetworkACL">>

\* ------------------------------------------------- the pollers, their ends
\* C25: in the wait for deletion no successful fetch ends the wait, whatever
\* status it shows: the wait goes on after it, and when the wait has returned
\* it was ended by a 404 (state deleted), by another fetch error (that error)
\* or by the timeout, never by the state of a fetched floating IP.
C25_DeleteWaitIgnoresStatus ==
    op = "wait_deleted" =>
        /\ (pc = "wait_deleted" /\ obs /= <<>>) => ~LastObs.err
        /\ pc = "idle" =>
               \/ /\ obs /= <<>> /\ LastObs.err /\ LastObs.code = 404
                  /\ Returned("deleted")
               \/ /\ obs /= <<>> /\ LastObs.err /\ LastObs.code /= 404
                  /\ waited = [state |-> Nil, err |-> "get-error"]
               \/ /\ obs = <<>> \/ ~LastObs.err
                  /\ waited = [state |-> Nil, err |-> "timeout"]
        /\ waited /= NotWaited => waited.state \in {"deleted", Nil}

\* fetches showing failed and available did not end the wait, the timeout did
C25_Witness ==
    /\ op = "wait_deleted"
    /\ pc = "idle"
    /\ Len(obs) = 2
    /\ ~obs[1].err /\ obs[1].status = "failed"
    /\ ~obs[2].err /\ obs[2].status = "available"
    /\ waited.err = "timeout"

\* C26: in the wait for availability a fetched status failed ends the wait
\* with the state failed and no error, like available; every other fetched
\* status keeps the wait going, so the wait never returns an unexpected-state
\* error: it ends on available, on failed, on a fetch error or on the timeout.
C26_AvailableWaitEnds ==
    op = "wait_available" =>
        /\ (obs /= <<>> /\ ~LastObs.err /\ LastObs.status = "failed") =>
               pc = "idle" /\ Returned("failed") /\ result = "ok"
        /\ (pc = "wait_available" /\ obs /= <<>>) =>
               ~LastObs.err /\ LastObs.status \notin {"available", "failed"}
        /\ waited.err /= "unexpected state"
        /\ pc = "idle" =>
               \/ /\ obs /= <<>> /\ ~LastObs.err /\ LastObs.status \in {"available", "failed"}
                  /\ Returned(LastObs.status)
               \/ /\ obs /= <<>> /\ LastObs.err
                  /\ waited = [state |-> Nil, err |-> "get-error"]
               \/ /\ obs = <<>> \/ (~LastObs.err /\ LastObs.status \notin {"available", "failed"})
                  /\ waited = [state |-> Nil, err |-> "timeout"]

\* a fetch showing deleting kept the wait going, the next one showed failed
C26_Witness ==
    /\ op = "wait_available"
    /\ pc = "idle"
    /\ Len(obs) = 2
    /\ ~obs[1].err /\ obs[1].status = "deleting"
    /\ ~obs[2].err /\ obs[2].status = "failed"
    /\ Returned("failed")
    /\ result = "ok"

\* ------------------------- sequences of floating-IP create, read and update
\* a handler that succeeded has returned and the engine can call the next
\* one: the identifier and the attributes stay, what the model recorded of the
\* handler that returned is dropped
FipReturn ==
    /\ pc = "done"
    /\ rtype = "floating_ip"
    /\ op \in {"fip_create", "fip_read", "fip_update"}
    /\ result = "ok"
    /\ pc' = "idle"
    /\ op' = "none"
    /\ result' = "none"
    /\ id0' = id
    /\ args' = <<>>
    /\ calls' = <<>>
    /\ changed' = FALSE
    /\ got' = NoGet
    /\ UNCHANGED <<id, obs, status, waited, pageVars, aclVars, rtype>>

\* a resource that has not been created yet
InitFipSeq == InitFip /\ id = Empty

NextFipSeq ==
    \/ FipCreate
    \/ FipRead
    \/ FipUpdate
    \/ FipReturn

SpecFipSeq == InitFipSeq /\ [][NextFipSeq]_vars

\* the last handler was a create, read or update and it succeeded
SuccessfulFip == op \in {"fip_create", "fip_read", "fip_update"} /\ result = "ok"

\* the identifier is three non-empty segments: the server id and the interface
\* id of the last remote call and a floating IP id of the server, the one the
\* Add call answered if that was the last call
IdMatches ==
    LET p == ParseNICFipTerraformID(id)
    IN  /\ p.err = Nil
        /\ Len(Split(id)) = 3
        /\ p.c \in FipIds
        /\ calls /= <<>> => p.a = args[1] /\ p.b = args[2]
        /\ (calls /= <<>> /\ calls[Len(calls)] = "Add") => p.c = args[3]

OkId(s) == s = Empty \/ ParseNICFipTerraformID(s).err = Nil

\* the statement as made: after every successful create, read or update
C27_StoredIdWellFormed ==
    SuccessfulFip => (id = Empty \/ IdMatches)

\* C27: after a successful create, read or update the stored identifier is
\* empty or three non-empty segments (server id and interface id of the last
\* remote call, floating IP id of the server), unless the create was given a
\* server id or an interface id that is empty or holds a '/', or an update
\* without a change kept an identifier that was not of that form before; so
\* with creates given non-empty ids free of '/' every successful sequence
\* keeps the form; a composite interface id gives its second part.
C27_StoredIdWellFormedForGoodIds ==
    SuccessfulFip =>
        \/ id = Empty
        \/ IdMatches
        \/ op = "fip_create" /\ ~(NonEmptyParts(args) /\ SepFreeParts(args))
        \/ op = "fip_update" /\ ~changed /\ id = id0 /\ ~OkId(id0)

\* an update that changed the floating IP of a created attachment
C27_Witness ==
    /\ op = "fip_update"
    /\ changed
    /\ pc = "done"
    /\ result = "ok"
    /\ id0 = <<"a", Sep, "a", Sep, "a">>
    /\ id = <<"a", Sep, "a", Sep, "b">>

\* ------------------ network ACL create and update with the read that ends them
NextAclFull ==
    \/ NextAcl
    \/ NwaclReadAfter

SpecAclFull == InitAcl /\ [][NextAclFull]_vars

\* the handler has made the call c
Called(c) == \E k \in 1..Len(calls) : calls[k] = c
\* the calls that change nothing on the server
ReadOnlyCalls ==
    {"vpcClient", "GetNetworkACL", "GetGlobalTagsUsingCRN:user", "GetGlobalTagsUsingCRN:access"}

\* C28: a network ACL update, the read that ends it included, makes the
\* UpdateNetworkACL call only if the name changed, the tag update call of a
\* tag set only if that set changed, and list, delete and create calls on the
\* rules only if the rules changed; it never creates or deletes an ACL, and
\* with no change at all every call it makes is a read.
C28_UpdateCallsMatchChanges ==
    op = "nwacl_update" =>
        /\ Called("UpdateNetworkACL") => cfg.hasChanged
        /\ Called("UpdateGlobalTagsUsingCRN:user") => cfg.tags
        /\ Called("UpdateGlobalTagsUsingCRN:access") => cfg.accessTags
        /\ (reqs /= <<>> \/ deleted /= <<>> \/ made /= <<>>) => cfg.rulesChanged
        /\ ~Called("CreateNetworkACL") /\ ~Called("DeleteNetworkACL")
        /\ (~cfg.hasChanged /\ ~cfg.tags /\ ~cfg.accessTags /\ ~cfg.rulesChanged) =>
               /\ \A k \in 1..Len(calls) : calls[k] \in ReadOnlyCalls
               /\ reqs = <<>> /\ deleted = <<>> /\ made = <<>>

\* an update in which only the access tags changed, with its read done
C28_Witness ==
    /\ op = "nwacl_update"
    /\ pc = "read_done"
    /\ result = "ok"
    /\ cfg = [NoCfg EXCEPT !.accessTags = TRUE]
    /\ calls = <<"vpcClient", "UpdateGlobalTagsUsingCRN:access", "vpcClient", "GetNetworkACL",
                 "GetGlobalTagsUsingCRN:user", "GetGlobalTagsUsingCRN:access">>

\* the sub-blocks of a rule that are not empty
NonEmptyBlocks(r) ==
    (IF r.icmp > 0 THEN {"icmp"} ELSE {}) \cup (IF r.tcp > 0 THEN {"tcp"} ELSE {})
        \cup (IF r.udp > 0 THEN {"udp"} ELSE {})

\* the read that ends a create or an update has written the rules
RulesReadBack ==
    /\ op \in AclOps
    /\ pc = "read_done"
    /\ got /= NoGet
    /\ ~got.err

\* C29: every CreateNetworkACLRule call carries one protocol, that of the one
\* non-empty sub-block of its rule, or all when the rule has none; the read
\* that follows gives, for a rule the server holds with protocol P, a rule
\* whose sub-block P has one element and whose other sub-blocks are empty
\* (all three empty for all); so every configured rule is read back with the
\* non-empty sub-blocks it was configured with.
C29_ProtocolRoundTrip ==
    op \in AclOps =>
        /\ \A i \in 1..Len(made) :
               /\ Cardinality(NonEmptyBlocks(rules[i])) <= 1
               /\ IF NonEmptyBlocks(rules[i]) = {}
                  THEN made[i].protocol = "all"
                  ELSE made[i].protocol \in NonEmptyBlocks(rules[i])
        /\ RulesReadBack =>
               /\ Len(attr.rules) = Len(rules)
               /\ \A i \in 1..Len(made) :
                      NonEmptyBlocks(attr.rules[i]) = {made[i].protocol} \ {"all"}
               /\ \A i \in 1..Len(rules) :
                      /\ NonEmptyBlocks(attr.rules[i]) = NonEmptyBlocks(rules[i])
                      /\ attr.rules[i].icmp + attr.rules[i].tcp + attr.rules[i].udp <= 1

\* a create of a udp rule and a rule of no protocol, read back
C29_Witness ==
    /\ op = "nwacl_create"
    /\ RulesReadBack
    /\ Len(made) = 2
    /\ made[1].protocol = "udp"
    /\ made[2].protocol = "all"
    /\ attr.rules = <<[icmp |-> 0, tcp |-> 0, udp |-> 1], [icmp |-> 0, tcp |-> 0, udp |-> 0]>>

====
